---- MODULE Spec2Model ----
(***************************************************************************)
(* ProgressPage (account-research-ui/src/pages/ProgressPage.tsx): the      *)
(* readiness gate, the task-status query, the progress mimicry effect,    *)
(* the navigate-on-completion effect and the derived display.             *)
(*                                                                         *)
(* React state is modelled as the values of the last committed render     *)
(* (isMimicking, mimickedProgress, currentMimickedStepIndex) plus the     *)
(* queue of setState calls not yet rendered (pending: every setter in the *)
(* page is called with a plain value, so the queue reduces to the last    *)
(* value written per state variable).  A commit applies the queue, then   *)
(* runs the cleanups and bodies of the effects whose dependencies differ  *)
(* from those of the previous render; React flushes these before it       *)
(* processes any further update, so a commit is one step.                 *)
(*                                                                         *)
(* Progress values are kept in integer units of 1/UnitsPerPercent percent *)
(* so that elapsedTime / MIMIC_DURATION_MS * 100 is exact.                *)
(***************************************************************************)
EXTENDS Integers, Sequences, FiniteSets, TLC

\* ---------------------------------------------------------------- bounds
\* HTTP requests for the task status issued by one page instance.
MaxFetches == 4
\* Timer handles a page instance may hold at once (setInterval ids).
MaxIntervals == 2
MaxReloads == 3
MaxJobChanges == 1
MaxTicks == 1300
\* Instants, in ms since the interval was created, at which a tick of the
\* mimicry interval may observe Date.now() - startTime.
ElapsedSamples ==
    {100, 5900, 6000, 18000, 60000, 90000, 108000, 114000, 119900, 120000, 130000}
\* Values of the server's advisory progress field, in percent.
ServerProgress == {0, 40, 100}

\* ------------------------------------------------------ program constants
MIMIC_DURATION_MS == 2 * 60 * 1000
STEPS_COUNT == 6
STEPS_CONFIG == (0 :> 0) @@ (1 :> 5) @@ (2 :> 15) @@ (3 :> 75) @@ (4 :> 90) @@ (5 :> 95)
RETRY_LIMIT == 2

UnitsPerPercent == MIMIC_DURATION_MS \div 100
Pct(p) == p * UnitsPerPercent

Statuses == {"pending", "running", "completed", "failed"}
Terminal == {"completed", "failed"}
NonTerminal == {"pending", "running"}
StepIndices == 0 .. (STEPS_COUNT - 1)

Min(a, b) == IF a <= b THEN a ELSE b

\* ----------------------------------------------------------- user info
\* Strings are sequences of characters; a stored item is the parsed form of
\* the string under localStorage['userInfo'] (NoItem: getItem returns null,
\* EmptyString: the item is '', Garbage: JSON.parse throws).
NoItem == [kind |-> "null"]
EmptyString == [kind |-> "empty"]
Garbage == [kind |-> "garbage"]
NameValues == {<<>>, <<"A">>, <<"A", "l">>}
EmailValues == {<<>>, <<"a">>, <<"a", "@", "b", ".", "c", "o">>}
UserInfoValues == [name : NameValues, email : EmailValues, designation : NameValues]
\* Mutant: the stored text loses the designation field.
Json_DropsField(info) ==
    [kind |-> "json", value |-> [info EXCEPT !.designation = <<>>]]
\* JSON.stringify(data) as read back by JSON.parse: an object of three strings.
Json(info) == [kind |-> "json", value |-> info]
StoredValues == {NoItem, EmptyString, Garbage} \cup {Json(i) : i \in UserInfoValues}

\* z.string().email(): a local part, an @, a domain with a dot and a
\* top-level label of at least two characters.
IsEmail(s) ==
    \E at \in 2 .. Len(s) : \E dot \in (at + 2) .. (Len(s) - 2) :
        /\ s[at] = "@"
        /\ s[dot] = "."
        /\ \A k \in 1 .. Len(s) : k # at => s[k] # "@"

userInfoSchema(info) ==
    /\ Len(info.name) >= 2
    /\ IsEmail(info.email)
    /\ Len(info.designation) >= 2

\* The stored string parses as JSON and the parsed value passes userInfoSchema.
StoredValid(item) == item.kind = "json" /\ userInfoSchema(item.value)

\* --------------------------------------------------------- mimicry math
\* Mutant: the progress is not capped at 100.
CurrentProgress_NoCap(elapsedTime) ==
    elapsedTime * (Pct(100) \div MIMIC_DURATION_MS)

\* Math.min(100, (elapsedTime / MIMIC_DURATION_MS) * 100); one percent is
\* UnitsPerPercent units, so a millisecond is Pct(100) \div MIMIC_DURATION_MS.
CurrentProgress(elapsedTime) ==
    Min(Pct(100), elapsedTime * (Pct(100) \div MIMIC_DURATION_MS))

\* for (i = STEPS_CONFIG.length - 1; i >= 0; i--) if (p >= threshold) break
RECURSIVE StepSearch(_, _)
StepSearch(i, currentProgress) ==
    IF i < 0 THEN -1
    ELSE IF currentProgress >= Pct(STEPS_CONFIG[i]) THEN i
    ELSE StepSearch(i - 1, currentProgress)

\* Mutant: the search runs upwards and stops at the first threshold passed.
StepIndexOf_FirstMatch(currentProgress) ==
    IF currentProgress >= Pct(STEPS_CONFIG[0]) THEN 0 ELSE -1

StepIndexOf(currentProgress) == StepSearch(STEPS_COUNT - 1, currentProgress)

\* Mutant: the mimicry branch is tested before the failed branch.
StepStatus_MimicryFirst(index, status, progress, mimicking, stepIndex) ==
    IF status = "completed" THEN "completed"
    ELSE IF mimicking THEN
        (IF index = stepIndex + 1 THEN "processing"
         ELSE IF index <= stepIndex THEN "completed"
         ELSE "pending")
    ELSE IF status = "failed" THEN (IF index = 0 THEN "completed" ELSE "failed")
    ELSE "pending"

\* Mutant: the step at stepIndex itself is the one highlighted as processing.
StepStatus_CurrentProcessing(index, status, progress, mimicking, stepIndex) ==
    IF status = "completed" THEN "completed"
    ELSE IF status = "failed" THEN (IF index = 0 THEN "completed" ELSE "failed")
    ELSE IF mimicking THEN
        (IF index = stepIndex THEN "processing"
         ELSE IF index < stepIndex THEN "completed"
         ELSE IF index = 0 THEN "processing"
         ELSE "pending")
    ELSE IF index = 0 /\ status \in NonTerminal /\ progress < Pct(STEPS_CONFIG[1])
    THEN "processing"
    ELSE "pending"

\* Mutant: the first step is forced to processing below the second threshold
\* even while the simulation is active.
StepStatus_OverrideWhileMimicking(index, status, progress, mimicking, stepIndex) ==
    IF index = 0 /\ status \in NonTerminal /\ progress < Pct(STEPS_CONFIG[1])
    THEN "processing"
    ELSE IF status = "completed" THEN "completed"
    ELSE IF status = "failed" THEN (IF index = 0 THEN "completed" ELSE "failed")
    ELSE IF mimicking THEN
        (IF index = stepIndex + 1 THEN "processing"
         ELSE IF index <= stepIndex THEN "completed"
         ELSE "pending")
    ELSE "pending"

\* ------------------------------------------------------------- display
\* One entry of the STEPS_CONFIG.map callback of displayedTaskSteps.
\* progress is isMimicking ? mimickedProgress : task?.progress ?? 0 and
\* stepIndex is isMimicking ? currentMimickedStepIndex : -1.
StepStatus(index, status, progress, mimicking, stepIndex) ==
    LET base ==
            IF status = "completed" THEN "completed"
            ELSE IF status = "failed" THEN (IF index = 0 THEN "completed" ELSE "failed")
            ELSE IF mimicking THEN
                (IF index = stepIndex + 1 THEN "processing"
                 ELSE IF index <= stepIndex THEN "completed"
                 ELSE "pending")
            ELSE "pending"
    IN  IF /\ index = 0
           /\ status \in NonTerminal
           /\ ~mimicking
           /\ progress < Pct(STEPS_CONFIG[1])
        THEN "processing"
        ELSE base

\* displayedTaskSteps, as a function of what the useMemo reads.
StepsFor(status, taskProgress, mimicking, mProgress, mIndex) ==
    [index \in StepIndices |->
        StepStatus(index, status,
                   IF mimicking THEN mProgress ELSE taskProgress,
                   mimicking,
                   IF mimicking THEN mIndex ELSE -1)]

\* const displayProgress = isMimicking ? mimickedProgress : task?.progress ?? 0
DisplayProgressFor(mimicking, mProgress, taskProgress) ==
    IF mimicking THEN mProgress ELSE taskProgress

\* getTaskLogs(taskStatus, progress) of the page's earlier revision, which
\* derives the step list from the server's progress alone.
GetTaskLogsIndex(currentProgress) ==
    LET thresholds == STEPS_CONFIG @@ (STEPS_COUNT :> 100)
        Passed == {i \in StepIndices :
                     \A j \in 0 .. i : currentProgress >= Pct(thresholds[j])}
    IN  IF Passed = {} THEN -1
        ELSE CHOOSE i \in Passed : \A j \in Passed : j <= i

getTaskLogs(taskStatus, progress) ==
    [index \in StepIndices |->
        IF taskStatus = "none" THEN "pending"
        ELSE IF taskStatus = "failed" THEN (IF index = 0 THEN "completed" ELSE "failed")
        ELSE IF taskStatus = "completed" THEN "completed"
        ELSE IF index < GetTaskLogsIndex(progress) THEN "completed"
        ELSE IF index = GetTaskLogsIndex(progress) THEN "processing"
        ELSE "pending"]

\* ---------------------------------------------------------------- state
VARIABLES
    mounted,                  \* the page instance is mounted
    storage,                  \* localStorage['userInfo']
    hasUserInfo,              \* useState(false)
    userInfoDialogOpen,       \* useState(false)
    isCheckingStorage,        \* useState(true)
    task,                     \* useQuery data; status "none" while undefined
    taskError,                \* useQuery error is set
    fetching,                 \* a status request is in flight
    failureCount,             \* failures of the fetch in flight so far
    fetchCount,               \* status requests issued by this page instance
    completedFetches,         \* fetch results that reported completed
    invalidateTimer,          \* the 300 ms setTimeout of onUserInfoSubmit is pending
    isMimicking,              \* committed useState(false)
    mimickedProgress,         \* committed useState(0)
    currentMimickedStepIndex, \* committed useState(-1)
    pending,                  \* setState calls of the mimicry state not yet rendered
    intervals,                \* setInterval handles: elapsed ms at the last tick, -1 when not scheduled
    intervalId,               \* intervalId captured by the cleanup of the last mimicry effect run (0: null)
    navTimers,                \* setTimeout handles of the navigate effect still pending
    navTimerId,               \* timer captured by the cleanup of the last navigate effect run (0: none)
    navScheduled,             \* navigate timeouts created
    navigateCalls,            \* calls of navigate(`/task/${id}/result`)
    lastEvent,                \* the handler that produced this state
    reloads,                  \* page loads since the stored item was last written by a submit
    submitted,                \* "stored": the item is a submitted record; "corrupted": a field of it was damaged
    jobChanges                \* changes of the :id route parameter seen by this page instance

vars == <<mounted, storage, hasUserInfo, userInfoDialogOpen, isCheckingStorage,
          task, taskError, fetching, failureCount, fetchCount, completedFetches,
          invalidateTimer, isMimicking, mimickedProgress, currentMimickedStepIndex,
          pending, intervals, intervalId, navTimers, navTimerId, navScheduled,
          navigateCalls, lastEvent, reloads, submitted, jobChanges>>

gateVars == <<storage, hasUserInfo, userInfoDialogOpen, isCheckingStorage>>
queryVars == <<taskError, fetching, failureCount, fetchCount, completedFetches>>
mimicVars == <<isMimicking, mimickedProgress, currentMimickedStepIndex, pending,
               intervals, intervalId>>
navVars == <<navTimers, navTimerId, navScheduled, navigateCalls>>
histVars == <<reloads, submitted>>

IntervalIds == 1 .. MaxIntervals
NavTimerIds == 1 .. MaxIntervals
NoTask == [status |-> "none", progress |-> 0]

\* The derived values of the current render.
displayProgress == DisplayProgressFor(isMimicking, mimickedProgress, task.progress)
displayedTaskSteps ==
    StepsFor(task.status, task.progress, isMimicking, mimickedProgress,
             currentMimickedStepIndex)

committed ==
    [isMimicking |-> isMimicking, mimickedProgress |-> mimickedProgress,
     currentMimickedStepIndex |-> currentMimickedStepIndex]

\* useState(0), useState(-1), useState(false)
NoMimicry ==
    [isMimicking |-> FALSE, mimickedProgress |-> 0, currentMimickedStepIndex |-> -1]

Init ==
    /\ storage \in StoredValues
    /\ mounted = TRUE
    /\ hasUserInfo = FALSE
    /\ userInfoDialogOpen = FALSE
    /\ isCheckingStorage = TRUE
    /\ task = NoTask
    /\ taskError = FALSE
    /\ fetching = FALSE
    /\ failureCount = 0
    /\ fetchCount = 0
    /\ completedFetches = 0
    /\ invalidateTimer = FALSE
    /\ isMimicking = FALSE
    /\ mimickedProgress = 0
    /\ currentMimickedStepIndex = -1
    /\ pending = NoMimicry
    /\ intervals = [i \in IntervalIds |-> -1]
    /\ intervalId = 0
    /\ navTimers = {}
    /\ navTimerId = 0
    /\ navScheduled = 0
    /\ navigateCalls = 0
    /\ lastEvent = "mount"
    /\ reloads = 0
    /\ submitted = "no"
    /\ jobChanges = 0

\* -------------------------------------------------------- effect bodies
Scheduled(ivs) == {i \in DOMAIN ivs : ivs[i] >= 0}
FreeId(used, ids) ==
    IF ids \ used = {} THEN 0
    ELSE CHOOSE i \in ids \ used : \A j \in ids \ used : i <= j

ClearInterval(ivs, id) ==
    IF id \in DOMAIN ivs THEN [ivs EXCEPT ![id] = -1] ELSE ivs

\* [task?.status, isMimicking] of this render against the previous one.
MimicryDepsChanged(oldStatus, oldMimicking, newStatus, newMimicking) ==
    oldStatus # newStatus \/ oldMimicking # newMimicking

\* Mutant: the cleanup resets isMimicking but leaves the interval scheduled.
MimicryCleanup_NoClear(ivs, closureId, queue) ==
    IF closureId # 0
    THEN [intervals |-> ivs, pending |-> [queue EXCEPT !.isMimicking = FALSE]]
    ELSE [intervals |-> ivs, pending |-> queue]

\* return () => { if (intervalId) { clearInterval(intervalId); setIsMimicking(false); } }
MimicryCleanup(ivs, closureId, queue) ==
    IF closureId # 0
    THEN [intervals |-> ClearInterval(ivs, closureId),
          pending |-> [queue EXCEPT !.isMimicking = FALSE]]
    ELSE [intervals |-> ivs, pending |-> queue]

\* The body of the mimicry effect, run with the values of the render it
\* belongs to.  intervalId is a fresh local initialised to null, so the
\* clearInterval of the terminal branch never has a handle to clear.
MimicryEffect(status, mimicking, ivs, queue) ==
    IF status \in NonTerminal /\ ~mimicking
    THEN LET id == FreeId(Scheduled(ivs), IntervalIds)
         IN  [intervals |-> IF id = 0 THEN ivs ELSE [ivs EXCEPT ![id] = 0],
              intervalId |-> id,
              pending |-> [isMimicking |-> TRUE, mimickedProgress |-> 0,
                           currentMimickedStepIndex |-> -1]]
    ELSE IF status \in Terminal /\ mimicking
    THEN [intervals |-> ivs,
          intervalId |-> 0,
          pending |-> IF status = "completed"
                      THEN [isMimicking |-> FALSE, mimickedProgress |-> Pct(100),
                            currentMimickedStepIndex |-> STEPS_COUNT]
                      ELSE [queue EXCEPT !.isMimicking = FALSE]]
    ELSE [intervals |-> ivs, intervalId |-> 0, pending |-> queue]

\* Mutant: the timeout is never created.
NavigateSchedules_Never(status) == FALSE

\* Mutant: the timeout is created for failed tasks too.
NavigateSchedules_AnyTerminal(status) == status \in Terminal

\* if (task?.status === 'completed') { const timer = setTimeout(...) }
NavigateSchedules(status) == status = "completed"

\* Mutant: the effect depends on the whole task object.
NavigateDepsChanged_WholeTask(oldTask, newTask) == oldTask # newTask

\* [task?.status, id, navigate] between two renders of one job id: the data
\* router's navigate is stable, so only the status can differ.
NavigateDepsChanged(oldTask, newTask) == oldTask.status # newTask.status

\* The setInterval callback, run when Date.now() - startTime is elapsedTime.
TickCallback(ivs, id, queue, elapsedTime) ==
    LET currentProgress == CurrentProgress(elapsedTime)
        stepIndex == StepIndexOf(currentProgress)
        reached == elapsedTime >= MIMIC_DURATION_MS
    IN  [intervals |-> IF reached THEN ClearInterval(ivs, id)
                       ELSE [ivs EXCEPT ![id] = elapsedTime],
         pending |-> [isMimicking |-> IF reached THEN FALSE ELSE queue.isMimicking,
                      mimickedProgress |-> currentProgress,
                      currentMimickedStepIndex |-> stepIndex]]

\* ------------------------------------------------------------- commit
\* One render of the page with query data newTask: the queued state is
\* committed, then the effects whose dependencies changed run, cleanup first.
RenderWith(newTask, navRuns) ==
    LET newMimicking == pending.isMimicking
        mimicryRuns == MimicryDepsChanged(task.status, isMimicking,
                                          newTask.status, newMimicking)
        c == IF mimicryRuns THEN MimicryCleanup(intervals, intervalId, pending)
             ELSE [intervals |-> intervals, pending |-> pending]
        e == IF mimicryRuns
             THEN MimicryEffect(newTask.status, newMimicking, c.intervals, c.pending)
             ELSE [intervals |-> c.intervals, intervalId |-> intervalId,
                   pending |-> c.pending]
        cleared == IF navRuns THEN navTimers \ {navTimerId} ELSE navTimers
        schedules == navRuns /\ NavigateSchedules(newTask.status)
        timer == FreeId(cleared, NavTimerIds)
    IN  /\ task' = newTask
        /\ isMimicking' = pending.isMimicking
        /\ mimickedProgress' = pending.mimickedProgress
        /\ currentMimickedStepIndex' = pending.currentMimickedStepIndex
        /\ pending' = e.pending
        /\ intervals' = e.intervals
        /\ intervalId' = e.intervalId
        /\ navTimers' = IF schedules /\ timer # 0 THEN cleared \cup {timer} ELSE cleared
        /\ navTimerId' = IF schedules THEN timer ELSE IF navRuns THEN 0 ELSE navTimerId
        /\ navScheduled' = IF schedules THEN navScheduled + 1 ELSE navScheduled
        /\ UNCHANGED navigateCalls

\* A render of the same job id: of [task?.status, id, navigate] only the
\* status can differ.
Commit(newTask) == RenderWith(newTask, NavigateDepsChanged(task, newTask))

\* Mutant: unmounting leaves the navigate timeout pending.
Teardown_KeepsNavTimer ==
    /\ mounted' = FALSE
    /\ intervals' = MimicryCleanup(intervals, intervalId, pending).intervals
    /\ intervalId' = 0
    /\ UNCHANGED <<navTimers, navTimerId>>
    /\ UNCHANGED <<isMimicking, mimickedProgress, currentMimickedStepIndex, pending>>

\* Unmounting runs every effect's cleanup; setState on the unmounted page is
\* dropped.
Teardown ==
    /\ mounted' = FALSE
    /\ intervals' = MimicryCleanup(intervals, intervalId, pending).intervals
    /\ intervalId' = 0
    /\ navTimers' = navTimers \ {navTimerId}
    /\ navTimerId' = 0
    /\ UNCHANGED <<isMimicking, mimickedProgress, currentMimickedStepIndex, pending>>

\* -------------------------------------------------------------- query
\* Mutant: the query is enabled without the gate.
Enabled_NoGate == mounted /\ ~isCheckingStorage

\* enabled: !!id && hasUserInfo && !isCheckingStorage, for a mounted observer
Enabled == mounted /\ hasUserInfo /\ ~isCheckingStorage

\* refetchInterval: false (0) once the data is completed or failed, else 5000
refetchInterval(taskData) == IF taskData.status \in Terminal THEN 0 ELSE 5000

\* Mutant: a 404 is retried like any other error.
retry_Ignores404(count, notFound) == count < RETRY_LIMIT

\* retry: (failureCount, error) => error is not a 404 and failureCount < 2
retry(count, notFound) == ~notFound /\ count < RETRY_LIMIT

\* The backend moves a task forward only: pending -> running -> completed | failed.
Forward(old, new) ==
    \/ old = "none"
    \/ old = new
    \/ old = "pending" /\ new \in {"running", "completed", "failed"}
    \/ old = "running" /\ new \in Terminal

IssueFetch(event) ==
    /\ fetchCount < MaxFetches
    /\ fetching' = TRUE
    /\ failureCount' = 0
    /\ fetchCount' = fetchCount + 1
    /\ lastEvent' = event
    /\ UNCHANGED <<taskError, completedFetches>>

\* ------------------------------------------------------------ actions
\* Mutant: the storage check has no dependency list and runs again after
\* every other event.
CheckLocalStorage_EveryRender ==
    /\ mounted /\ lastEvent # "check"
    /\ LET truthy == storage \notin {NoItem, EmptyString}
           isValidInfo == /\ truthy
                          /\ storage.kind = "json"
                          /\ userInfoSchema(storage.value)
       IN  /\ storage' = IF truthy /\ ~isValidInfo THEN NoItem ELSE storage
           /\ hasUserInfo' = isValidInfo
           /\ userInfoDialogOpen' = ~isValidInfo
           /\ isCheckingStorage' = FALSE
           /\ fetching' = isValidInfo
           /\ UNCHANGED fetchCount
    /\ lastEvent' = "check"
    /\ UNCHANGED <<mounted, task, taskError, failureCount, completedFetches,
                   invalidateTimer, mimicVars, navVars>>
    /\ UNCHANGED <<histVars, jobChanges>>

\* Mutant: the storage check accepts any item that parses as JSON.
CheckLocalStorage_ParseOnly ==
    /\ mounted /\ isCheckingStorage
    /\ LET truthy == storage \notin {NoItem, EmptyString}
           isValidInfo == truthy /\ storage.kind = "json"
       IN  /\ storage' = IF truthy /\ ~isValidInfo THEN NoItem ELSE storage
           /\ hasUserInfo' = isValidInfo
           /\ userInfoDialogOpen' = ~isValidInfo
           /\ isCheckingStorage' = FALSE
           /\ fetching' = isValidInfo
           /\ fetchCount' = IF isValidInfo THEN fetchCount + 1 ELSE fetchCount
    /\ lastEvent' = "check"
    /\ UNCHANGED <<mounted, task, taskError, failureCount, completedFetches,
                   invalidateTimer, mimicVars, navVars>>
    /\ UNCHANGED <<histVars, jobChanges>>

\* useEffect(..., []) "Check Local Storage on Mount", and the render that
\* follows: the query observer starts fetching as soon as it is enabled.
CheckLocalStorage ==
    /\ mounted /\ isCheckingStorage
    /\ LET truthy == storage \notin {NoItem, EmptyString}
           isValidInfo == /\ truthy
                          /\ storage.kind = "json"
                          /\ userInfoSchema(storage.value)
       IN  /\ storage' = IF truthy /\ ~isValidInfo THEN NoItem ELSE storage
           /\ hasUserInfo' = isValidInfo
           /\ userInfoDialogOpen' = ~isValidInfo
           /\ isCheckingStorage' = FALSE
           /\ fetching' = isValidInfo
           /\ fetchCount' = IF isValidInfo THEN fetchCount + 1 ELSE fetchCount
    /\ lastEvent' = "check"
    /\ UNCHANGED <<mounted, task, taskError, failureCount, completedFetches,
                   invalidateTimer, mimicVars, navVars>>
    /\ UNCHANGED <<histVars, jobChanges>>

\* The dialog is rendered iff userInfoDialogOpen && !hasUserInfo, after the
\* storage check.
DialogShown == mounted /\ ~isCheckingStorage /\ userInfoDialogOpen /\ ~hasUserInfo

\* Mutant: the state is set and the refetch armed before setItem is called.
onUserInfoSubmit_SetsBeforeStore(data, setItemThrows) ==
    /\ DialogShown
    /\ userInfoSchema(data)
    /\ hasUserInfo' = TRUE
    /\ userInfoDialogOpen' = FALSE
    /\ invalidateTimer' = TRUE
    /\ UNCHANGED isCheckingStorage
    /\ IF setItemThrows
       THEN /\ UNCHANGED <<storage, histVars>>
            /\ IssueFetch("submitThrows")
       ELSE /\ storage' = Json(data)
            /\ reloads' = 0
            /\ submitted' = "stored"
            /\ IssueFetch("submit")
    /\ UNCHANGED <<mounted, task, mimicVars, navVars, jobChanges>>

\* handleSubmit(onUserInfoSubmit): the zod resolver lets only valid data
\* through; localStorage.setItem may throw.
onUserInfoSubmit(data, setItemThrows) ==
    /\ DialogShown
    /\ userInfoSchema(data)
    /\ IF setItemThrows
       THEN /\ lastEvent' = "submitThrows"
            /\ UNCHANGED <<gateVars, queryVars, invalidateTimer, histVars>>
       ELSE /\ storage' = Json(data)
            /\ reloads' = 0
            /\ submitted' = "stored"
            /\ hasUserInfo' = TRUE
            /\ userInfoDialogOpen' = FALSE
            /\ invalidateTimer' = TRUE
            /\ UNCHANGED isCheckingStorage
            /\ IssueFetch("submit")
    /\ UNCHANGED <<mounted, task, mimicVars, navVars, jobChanges>>

\* Mutant: data the resolver rejects is written all the same.
SubmitRejected_Stores(data) ==
    /\ DialogShown
    /\ ~userInfoSchema(data)
    /\ storage' = Json(data)
    /\ lastEvent' = "submitRejected"
    /\ UNCHANGED <<mounted, hasUserInfo, userInfoDialogOpen, isCheckingStorage, task,
                   queryVars, invalidateTimer, mimicVars, navVars, histVars, jobChanges>>

\* handleSubmit with data the zod resolver rejects: the field errors are
\* shown and onUserInfoSubmit is not called.
SubmitRejected(data) ==
    /\ DialogShown
    /\ ~userInfoSchema(data)
    /\ lastEvent' = "submitRejected"
    /\ UNCHANGED <<mounted, gateVars, task, queryVars, invalidateTimer, mimicVars,
                   navVars, histVars, jobChanges>>

\* onOpenChange(false): setUserInfoDialogOpen(false)
DismissDialog ==
    /\ DialogShown
    /\ userInfoDialogOpen' = FALSE
    /\ lastEvent' = "dismiss"
    /\ UNCHANGED <<mounted, storage, hasUserInfo, isCheckingStorage, task, queryVars,
                   invalidateTimer, mimicVars, navVars>>
    /\ UNCHANGED <<histVars, jobChanges>>

\* setTimeout(() => queryClient.invalidateQueries(...), 300): an active
\* query is refetched, cancelling a request in flight; nothing cancels the
\* timeout itself.
InvalidateFires ==
    /\ invalidateTimer
    /\ invalidateTimer' = FALSE
    /\ IF Enabled
       THEN IssueFetch("invalidate")
       ELSE /\ lastEvent' = "invalidate"
            /\ UNCHANGED queryVars
    /\ UNCHANGED <<mounted, gateVars, task, mimicVars, navVars>>
    /\ UNCHANGED <<histVars, jobChanges>>

\* The refetchInterval timer of the observer.
PollFires ==
    /\ Enabled /\ ~fetching
    /\ refetchInterval(task) # 0
    /\ IssueFetch("poll")
    /\ UNCHANGED <<mounted, gateVars, task, invalidateTimer, mimicVars, navVars>>
    /\ UNCHANGED <<histVars, jobChanges>>

\* refetchOnWindowFocus: true, with data older than staleTime.
WindowFocus ==
    /\ Enabled /\ ~fetching
    /\ IssueFetch("focus")
    /\ UNCHANGED <<mounted, gateVars, task, invalidateTimer, mimicVars, navVars>>
    /\ UNCHANGED <<histVars, jobChanges>>

\* api.getTaskStatus(id) resolves; the page re-renders with the new data.
FetchSuccess(status, progress) ==
    /\ mounted /\ fetching
    /\ Forward(task.status, status)
    /\ fetching' = FALSE
    /\ failureCount' = 0
    /\ taskError' = FALSE
    /\ completedFetches' = IF status = "completed" THEN completedFetches + 1
                           ELSE completedFetches
    /\ Commit([status |-> status, progress |-> Pct(progress)])
    /\ lastEvent' = "fetchSuccess"
    /\ UNCHANGED <<mounted, gateVars, fetchCount, invalidateTimer>>
    /\ UNCHANGED <<histVars, jobChanges>>

\* api.getTaskStatus(id) rejects: retried, or surfaced as taskError.
FetchFailure(notFound) ==
    /\ mounted /\ fetching
    /\ IF retry(failureCount, notFound)
       THEN /\ fetchCount < MaxFetches
            /\ failureCount' = failureCount + 1
            /\ fetchCount' = fetchCount + 1
            /\ lastEvent' = "fetchRetry"
            /\ UNCHANGED <<fetching, taskError, task, mimicVars, navVars>>
       ELSE /\ fetching' = FALSE
            /\ taskError' = TRUE
            /\ Commit(task)
            /\ lastEvent' = "fetchError"
            /\ UNCHANGED <<failureCount, fetchCount>>
    /\ UNCHANGED <<mounted, gateVars, completedFetches, invalidateTimer>>
    /\ UNCHANGED <<histVars, jobChanges>>

\* A request still in flight when the page unmounted settles unobserved.
FetchAbandoned ==
    /\ ~mounted /\ fetching
    /\ fetching' = FALSE
    /\ lastEvent' = "abandon"
    /\ UNCHANGED <<mounted, gateVars, task, taskError, failureCount, fetchCount,
                   completedFetches, invalidateTimer, mimicVars, navVars>>
    /\ UNCHANGED <<histVars, jobChanges>>

\* A scheduled mimicry interval fires.
Tick(id, elapsedTime) ==
    /\ intervals[id] >= 0
    /\ elapsedTime > intervals[id]
    /\ LET r == TickCallback(intervals, id, pending, elapsedTime)
       IN  /\ intervals' = r.intervals
           /\ pending' = IF mounted THEN r.pending ELSE pending
    /\ lastEvent' = "tick"
    /\ UNCHANGED <<mounted, gateVars, task, queryVars, invalidateTimer, isMimicking,
                   mimickedProgress, currentMimickedStepIndex, intervalId, navVars>>
    /\ UNCHANGED <<histVars, jobChanges>>

\* React renders the queued mimicry state.
Render ==
    /\ mounted
    /\ pending # committed
    /\ Commit(task)
    /\ lastEvent' = "render"
    /\ UNCHANGED <<mounted, gateVars, queryVars, invalidateTimer>>
    /\ UNCHANGED <<histVars, jobChanges>>

\* The navigate timeout fires; the route change unmounts the page.
NavigateFires(timer) ==
    /\ timer \in navTimers
    /\ navigateCalls' = navigateCalls + 1
    /\ navScheduled' = navScheduled
    /\ IF mounted
       THEN /\ Teardown
            /\ navTimers' = (navTimers \ {timer}) \ {navTimerId}
       ELSE /\ navTimers' = navTimers \ {timer}
            /\ UNCHANGED <<mounted, mimicVars, navTimerId>>
    /\ lastEvent' = "navigate"
    /\ UNCHANGED <<gateVars, task, queryVars, invalidateTimer>>
    /\ UNCHANGED <<histVars, jobChanges>>

\* The user leaves the page (Go to History, Start New Report, back).
Unmount ==
    /\ mounted
    /\ Teardown
    /\ lastEvent' = "unmount"
    /\ UNCHANGED <<gateVars, task, queryVars, invalidateTimer, navScheduled,
                   navigateCalls>>
    /\ UNCHANGED <<histVars, jobChanges>>

\* The browser reloads the page: the script context, its timers and
\* requests and the query cache are gone, localStorage stays.
Reload ==
    /\ mounted
    /\ reloads < MaxReloads
    /\ mounted' = TRUE
    /\ hasUserInfo' = FALSE
    /\ userInfoDialogOpen' = FALSE
    /\ isCheckingStorage' = TRUE
    /\ task' = NoTask
    /\ taskError' = FALSE
    /\ fetching' = FALSE
    /\ failureCount' = 0
    /\ fetchCount' = 0
    /\ completedFetches' = 0
    /\ invalidateTimer' = FALSE
    /\ isMimicking' = FALSE
    /\ mimickedProgress' = 0
    /\ currentMimickedStepIndex' = -1
    /\ pending' = NoMimicry
    /\ intervals' = [i \in IntervalIds |-> -1]
    /\ intervalId' = 0
    /\ navTimers' = {}
    /\ navTimerId' = 0
    /\ navScheduled' = 0
    /\ navigateCalls' = 0
    /\ reloads' = reloads + 1
    /\ lastEvent' = "reload"
    /\ UNCHANGED <<storage, submitted, jobChanges>>

\* One field of the stored record is damaged outside the page.
CorruptStoredField(field, value) ==
    /\ submitted = "stored"
    /\ ~userInfoSchema([storage.value EXCEPT ![field] = value])
    /\ storage' = Json([storage.value EXCEPT ![field] = value])
    /\ submitted' = "corrupted"
    /\ lastEvent' = "corrupt"
    /\ UNCHANGED <<mounted, hasUserInfo, userInfoDialogOpen, isCheckingStorage, task,
                   queryVars, invalidateTimer, mimicVars, navVars, reloads, jobChanges>>

\* What the query cache holds for another job id: nothing, or the record of
\* an earlier visit in this session.
CachedTasks ==
    {NoTask} \cup {[status |-> st, progress |-> Pct(p)] : st \in Statuses, p \in ServerProgress}

\* The route parameter :id changes while the page stays mounted (the same
\* route element): the component state is kept, useQuery observes the query
\* of the new id, whose data is the cache entry, and fetches it if enabled;
\* id is a dependency of the navigate effect.
JobIdChanges(cachedTask) ==
    /\ mounted
    /\ jobChanges < MaxJobChanges
    /\ jobChanges' = jobChanges + 1
    /\ taskError' = FALSE
    /\ failureCount' = 0
    /\ IF Enabled
       THEN /\ fetchCount < MaxFetches
            /\ fetching' = TRUE
            /\ fetchCount' = fetchCount + 1
       ELSE /\ fetching' = FALSE
            /\ UNCHANGED fetchCount
    /\ RenderWith(cachedTask, TRUE)
    /\ lastEvent' = "jobChange"
    /\ UNCHANGED <<mounted, gateVars, completedFetches, invalidateTimer, histVars>>

Next ==
    \/ CheckLocalStorage
    \/ \E data \in UserInfoValues, setItemThrows \in BOOLEAN :
          onUserInfoSubmit(data, setItemThrows)
    \/ \E data \in UserInfoValues : SubmitRejected(data)
    \/ DismissDialog
    \/ InvalidateFires
    \/ PollFires
    \/ WindowFocus
    \/ \E status \in Statuses, progress \in ServerProgress : FetchSuccess(status, progress)
    \/ \E notFound \in BOOLEAN : FetchFailure(notFound)
    \/ FetchAbandoned
    \/ \E id \in IntervalIds, elapsedTime \in ElapsedSamples : Tick(id, elapsedTime)
    \/ Render
    \/ \E timer \in NavTimerIds : NavigateFires(timer)
    \/ Unmount

Spec == Init /\ [][Next]_vars

\* The readiness gate across page loads: the handlers that write the gate
\* state or localStorage, page reloads, and damage to the stored record.
\* Every other handler leaves gateVars unchanged.
GateNext ==
    \/ CheckLocalStorage
    \/ \E data \in UserInfoValues, setItemThrows \in BOOLEAN :
          onUserInfoSubmit(data, setItemThrows)
    \/ \E data \in UserInfoValues : SubmitRejected(data)
    \/ DismissDialog
    \/ Reload
    \/ \E field \in {"name", "email", "designation"}, value \in NameValues \cup EmailValues :
          CorruptStoredField(field, value)

GateSpec == Init /\ [][GateNext]_vars

\* The page with user info already stored, observing one job id and then
\* another.
JobInit == Init /\ StoredValid(storage)

JobNext ==
    \/ CheckLocalStorage
    \/ PollFires
    \/ WindowFocus
    \/ \E status \in Statuses, progress \in ServerProgress : FetchSuccess(status, progress)
    \/ \E notFound \in BOOLEAN : FetchFailure(notFound)
    \/ FetchAbandoned
    \/ \E id \in IntervalIds, elapsedTime \in ElapsedSamples : Tick(id, elapsedTime)
    \/ Render
    \/ \E timer \in NavTimerIds : NavigateFires(timer)
    \/ Unmount
    \/ \E cachedTask \in CachedTasks : JobIdChanges(cachedTask)

JobSpec == JobInit /\ [][JobNext]_vars

\* The page of one job id with user info already stored, under the browser's
\* guarantee that a scheduled timeout is eventually run.
LiveNext ==
    \/ CheckLocalStorage
    \/ PollFires
    \/ WindowFocus
    \/ \E status \in Statuses, progress \in ServerProgress : FetchSuccess(status, progress)
    \/ \E notFound \in BOOLEAN : FetchFailure(notFound)
    \/ FetchAbandoned
    \/ \E id \in IntervalIds, elapsedTime \in ElapsedSamples : Tick(id, elapsedTime)
    \/ Render
    \/ \E timer \in NavTimerIds : NavigateFires(timer)
    \/ Unmount

TimeoutsRun == WF_vars(\E timer \in NavTimerIds : NavigateFires(timer))

LiveSpec == JobInit /\ [][LiveNext]_vars /\ TimeoutsRun

\* The interval callback on its own: the page right after the first fetch
\* returned pending and the mimicry effect created the interval, then ticks
\* at every multiple of the 100 ms period and next to every threshold.
TICK_PERIOD_MS == 100
TickTimes ==
    {k * TICK_PERIOD_MS : k \in 1 .. MaxTicks}
        \cup {Pct(STEPS_CONFIG[i]) + d : i \in 1 .. (STEPS_COUNT - 1), d \in {-1, 1}}
        \cup {MIMIC_DURATION_MS - 1, MIMIC_DURATION_MS + 1}

ValidUserInfo ==
    [name |-> <<"A", "l">>, email |-> <<"a", "@", "b", ".", "c", "o">>,
     designation |-> <<"A", "l">>]

TickInit ==
    /\ mounted = TRUE
    /\ storage = Json(ValidUserInfo)
    /\ hasUserInfo = TRUE
    /\ userInfoDialogOpen = FALSE
    /\ isCheckingStorage = FALSE
    /\ task = [status |-> "pending", progress |-> 0]
    /\ taskError = FALSE
    /\ fetching = FALSE
    /\ failureCount = 0
    /\ fetchCount = 1
    /\ completedFetches = 0
    /\ invalidateTimer = FALSE
    /\ isMimicking = FALSE
    /\ mimickedProgress = 0
    /\ currentMimickedStepIndex = -1
    /\ pending = [NoMimicry EXCEPT !.isMimicking = TRUE]
    /\ intervals = [i \in IntervalIds |-> IF i = 1 THEN 0 ELSE -1]
    /\ intervalId = 1
    /\ navTimers = {}
    /\ navTimerId = 0
    /\ navScheduled = 0
    /\ navigateCalls = 0
    /\ lastEvent = "fetchSuccess"
    /\ reloads = 0
    /\ submitted = "no"
    /\ jobChanges = 0

TickNext == \E elapsedTime \in TickTimes : Tick(1, elapsedTime)

TickSpec == TickInit /\ [][TickNext]_vars

\* ================================================================ claims
SimulationActive == mounted /\ task.status \in NonTerminal /\ isMimicking

\* C1: for one job id, the displayed progress never decreases from one
\* rendered state of the page to the next.
C1_DisplayNeverDecreases ==
    [][mounted' => displayProgress' >= displayProgress]_vars

\* C2: while the authoritative status is pending or running the displayed
\* progress is at most 99 percent; 100 is never shown before completion.
C2_CappedBelowHundred ==
    (mounted /\ task.status \in NonTerminal) => displayProgress <= Pct(99)

\* C3: once a fetch has returned completed or failed, no further status
\* request is issued for the job, whatever the trigger.
C3_NoFetchAfterTerminal ==
    [][task.status \in Terminal => fetchCount' = fetchCount]_vars

\* C4: however many fetches report completed, the delayed navigation is
\* scheduled once, navigate is called at most once, and until it is called
\* the timeout stays pending on the mounted page.
C4_NavigateOnce ==
    completedFetches >= 1 =>
        /\ navScheduled = 1
        /\ navigateCalls <= 1
        /\ (mounted => navigateCalls = 0 /\ navTimers # {})
        /\ (navigateCalls = 1 => navTimers = {})

C4_Witness ==
    completedFetches >= 2 /\ navigateCalls = 1 /\ navScheduled = 1

\* C5: the simulation starts when the status first becomes pending or
\* running, and once started its interval stays scheduled, without being
\* restarted, until the status is terminal, a tick reaches the duration or
\* the page unmounts.
C5_SimulationKeepsRunning ==
    [][/\ (task.status = "none" /\ task'.status \in NonTerminal)
            => Scheduled(intervals') # {}
       /\ (/\ Scheduled(intervals) # {}
           /\ mounted'
           /\ task'.status \in NonTerminal
           /\ lastEvent' # "tick")
            => \A i \in Scheduled(intervals) : intervals'[i] = intervals[i]]_vars

\* C6: from the fetch that returns completed or failed onwards, no mimicry
\* interval is scheduled and no tick callback runs.
C6_NoTickAfterTerminal ==
    [][task'.status \in Terminal =>
         (lastEvent' # "tick" /\ Scheduled(intervals') = {})]_vars

\* The terminal status arrived while the interval of a started simulation
\* was scheduled and had ticked.
C6_Witness ==
    /\ mounted
    /\ task.status \in Terminal
    /\ lastEvent = "fetchSuccess"
    /\ isMimicking
    /\ mimickedProgress > 0
    /\ Scheduled(intervals) = {}

FailedSteps == [index \in StepIndices |-> IF index = 0 THEN "completed" ELSE "failed"]

\* C7: with status failed, step 0 is completed and every other step failed,
\* whatever the simulated progress, step index and isMimicking flag.
C7_FailureFanOut ==
    task.status = "failed" =>
        /\ displayedTaskSteps = FailedSteps
        /\ getTaskLogs(task.status, task.progress) = FailedSteps

C7_Witness ==
    /\ task.status = "failed"
    /\ isMimicking
    /\ mimickedProgress > 0
    /\ currentMimickedStepIndex >= 1

ThresholdStepsCompleted ==
    \A i \in StepIndices :
        Pct(STEPS_CONFIG[i]) <= mimickedProgress => displayedTaskSteps[i] = "completed"

\* C8 as stated: whenever the simulation is active, every step whose
\* threshold is at most the synthetic progress is rendered completed.
C8_Original == SimulationActive => ThresholdStepsCompleted

\* C8 as amended: the same once a tick has been rendered (progress above 0);
\* before the first tick step 0, of threshold 0, is rendered processing.
C8_ThresholdMapping ==
    SimulationActive =>
        /\ mimickedProgress > 0 => ThresholdStepsCompleted
        /\ mimickedProgress = 0 => displayedTaskSteps[0] = "processing"

C8_Witness ==
    SimulationActive /\ mimickedProgress = Pct(50) /\ displayedTaskSteps[2] = "completed"

HighestStep(progress) ==
    IF \E i \in StepIndices : Pct(STEPS_CONFIG[i]) <= progress
    THEN CHOOSE i \in StepIndices :
            /\ Pct(STEPS_CONFIG[i]) <= progress
            /\ \A j \in StepIndices : Pct(STEPS_CONFIG[j]) <= progress => j <= i
    ELSE -1

C10_CompletedShowsHundred ==
    (mounted /\ task.status = "completed") => displayProgress = Pct(100)

\* C11: when a fetch reports failed while the simulation is displayed, and
\* in every later step that leaves the failed record as it is, the displayed
\* progress keeps the value it had before: the failure leaves it at the last
\* simulated value.
C11_FailureFreezesDisplay ==
    [][(/\ mounted'
        /\ task'.status = "failed"
        /\ (SimulationActive \/ (task.status = "failed" /\ task' = task)))
         => displayProgress' = displayProgress]_vars

\* What the page would show in this state had the server reported progress p:
\* no handler reads task.progress, so two runs with the same events and
\* statuses differ in nothing but that field.
DisplayWith(p) ==
    [progress |-> DisplayProgressFor(isMimicking, mimickedProgress, Pct(p)),
     steps |-> StepsFor(task.status, Pct(p), isMimicking, mimickedProgress,
                        currentMimickedStepIndex)]

\* C12: while the status is pending or running, the displayed progress and
\* step statuses are the same for every value of the server's progress field.
C12_DisplayIgnoresServerProgress ==
    (mounted /\ task.status \in NonTerminal) =>
        \A p \in ServerProgress :
            DisplayWith(p) = [progress |-> displayProgress, steps |-> displayedTaskSteps]

\* C13: the storage check on mount makes the gate valid and leaves the item
\* as it is when the stored value passes the check; a stored value that
\* fails JSON parsing or the schema makes the gate not valid and is removed.
C13_MountCheck ==
    [][lastEvent' = "check" =>
         IF StoredValid(storage)
         THEN hasUserInfo' /\ storage' = storage
         ELSE ~hasUserInfo' /\ (storage # NoItem => storage' = NoItem)]_vars

\* C14: once a valid record has been submitted the stored item passes the
\* check, the dialog is not open, and every page load whose storage check has
\* run, the first and the second reload included, has the gate valid; after
\* one field of the stored record is damaged, the next storage check leaves
\* the gate not valid and the store empty.
C14_GateRoundTrip ==
    /\ [](submitted = "stored" =>
            /\ StoredValid(storage)
            /\ ~userInfoDialogOpen
            /\ (~isCheckingStorage => hasUserInfo))
    /\ [][(submitted = "corrupted" /\ lastEvent' = "check") =>
            (~hasUserInfo' /\ storage' = NoItem)]_vars

\* Submitted, reloaded three times, damaged, and checked by the last load.
C14_Witness ==
    /\ submitted = "corrupted"
    /\ reloads = MaxReloads
    /\ lastEvent = "check"
    /\ storage = NoItem
    /\ ~hasUserInfo
    /\ userInfoDialogOpen

\* C15: while hasUserInfo is false or the storage check is still running, no
\* status request is in flight, none has been issued, and neither the poll
\* timer nor the delayed refetch is scheduled; a request is only ever issued
\* into a state whose gate is valid.
C15_NoFetchWithoutGate ==
    /\ []((~hasUserInfo \/ isCheckingStorage) =>
            (~fetching /\ fetchCount = 0 /\ ~invalidateTimer /\ ~Enabled))
    /\ [][fetchCount' > fetchCount => (hasUserInfo' /\ ~isCheckingStorage')]_vars

\* The dialog is up, a submit could not be stored, and the page sits idle.
C15_Witness ==
    /\ mounted
    /\ ~isCheckingStorage
    /\ ~hasUserInfo
    /\ lastEvent = "submitThrows"
    /\ ~fetching

\* C16: a fetch whose retries are exhausted surfaces the error, and while
\* the error is shown and no request is in flight, no timer of the page (the
\* poll interval, the delayed refetch) issues another status request.
C16_NoPollAfterError ==
    [][/\ lastEvent' = "fetchError" => taskError'
       /\ (mounted /\ taskError /\ ~fetching /\ fetchCount' > fetchCount)
            => lastEvent' \notin {"poll", "invalidate"}]_vars

\* C17: once the page is unmounted no navigate timeout is pending, and
\* navigate is not called from then on: a transition scheduled and not yet
\* fired at unmount never fires.
C17_UnmountCancelsNavigate ==
    /\ [](~mounted => navTimers = {})
    /\ [][~mounted => navigateCalls' = navigateCalls]_vars

\* The page left while the timeout of a completed task was still pending.
C17_Witness ==
    /\ ~mounted
    /\ lastEvent = "unmount"
    /\ task.status = "completed"
    /\ navScheduled = 1
    /\ navigateCalls = 0

\* C18: a navigate timeout is pending on the page only while the latest
\* status is completed; a timeout is created only by a render that sees
\* completed, and navigate is called only when the latest status is completed.
C18_NavigateOnlyWhenCompleted ==
    /\ [](task.status # "completed" => navTimers = {})
    /\ [][/\ navScheduled' > navScheduled => task'.status = "completed"
          /\ navigateCalls' > navigateCalls => task.status = "completed"]_vars

\* A failed task sits on the mounted page after its mimicry was rendered,
\* with no transition scheduled.
C18_Witness ==
    /\ mounted
    /\ task.status = "failed"
    /\ lastEvent = "render"
    /\ navScheduled = 0
    /\ navigateCalls = 0

\* C19: once the page is torn down none of its timers is scheduled: no
\* mimicry interval, no navigate timeout, no poll timer, and no delayed
\* refetch of a user-info submit.
C19_NoTimerAfterTeardown ==
    ~mounted =>
        /\ Scheduled(intervals) = {}
        /\ navTimers = {}
        /\ ~(Enabled /\ refetchInterval(task) # 0)
        /\ ~invalidateTimer

\* C20: the render that first sees a new job id leaves no interval of the
\* previous job running, leaves the simulated progress and step index at
\* their initial values (or those of a fresh start), and, when the new job
\* has a status, displays 0 or the new job's own server progress, never a
\* value simulated for the previous job.
C20_JobChangeResets ==
    [][lastEvent' = "jobChange" =>
         /\ \A i \in Scheduled(intervals') : intervals'[i] = 0
         /\ pending'.mimickedProgress = 0
         /\ pending'.currentMimickedStepIndex = -1
         /\ task'.status # "none" => displayProgress' \in {0, task'.progress}]_vars

\* C21: with the gate valid and one job id, whenever the page holds a
\* completed status, navigate is eventually called unless the page is
\* unmounted first.
C21_CompletedLeadsToNavigate ==
    (mounted /\ task.status = "completed") ~> (navigateCalls >= 1 \/ ~mounted)

\* navigate was called for a task whose completion was fetched twice.
C21_Witness ==
    /\ hasUserInfo
    /\ completedFetches >= 2
    /\ lastEvent = "navigate"
    /\ navigateCalls = 1

C23_StorageFrame ==
    [][storage' # storage =>
         \/ lastEvent' = "submit" /\ StoredValid(storage')
         \/ lastEvent' = "check" /\ storage' = NoItem]_vars

\* A record was submitted (after a rejected attempt or not), the task ran to
\* completion and the page navigated away: the record is still there.
C23_Witness ==
    /\ submitted = "stored"
    /\ lastEvent = "navigate"
    /\ mimickedProgress > 0
    /\ StoredValid(storage)

\* The state TickSpec starts from.
TickInitReached ==
    /\ lastEvent = "fetchSuccess"
    /\ task = [status |-> "pending", progress |-> 0]
    /\ fetchCount = 1
    /\ pending = [NoMimicry EXCEPT !.isMimicking = TRUE]
    /\ committed = NoMimicry
    /\ intervals[1] = 0
    /\ intervalId = 1
    /\ submitted = "no"

\* C24: a tick at elapsed time e queues the progress min(100, e / 120000 *
\* 100) and the largest step index whose threshold is at most that progress
\* (-1 if none); at e = 60000 these are 50 and 2.
C24_TickMath ==
    lastEvent = "tick" =>
        LET e == intervals[1]
            progress == pending.mimickedProgress
        IN  /\ e >= 0 =>
                  progress * (MIMIC_DURATION_MS \div 1000) = e * (Pct(100) \div 1000)
            /\ e < 0 => progress = Pct(100)
            /\ pending.currentMimickedStepIndex = HighestStep(progress)
            /\ e = 60000 =>
                  (progress = Pct(50) /\ pending.currentMimickedStepIndex = 2)

C24_Witness ==
    /\ lastEvent = "tick"
    /\ intervals[1] = 60000
    /\ pending.mimickedProgress = Pct(50)
    /\ pending.currentMimickedStepIndex = 2

\* C25: a request that fails with a 404 is not retried: the error is
\* surfaced at once; a request that fails otherwise is retried while fewer
\* than two retries were made and surfaced after the second retry failed, so
\* no fetch makes more than three attempts.
C25_RetryPolicy ==
    /\ [](failureCount <= 2)
    /\ [][/\ FetchFailure(TRUE) =>
               (lastEvent' = "fetchError" /\ taskError' /\ ~fetching'
                   /\ fetchCount' = fetchCount)
          /\ FetchFailure(FALSE) =>
               IF failureCount < 2
               THEN /\ lastEvent' = "fetchRetry"
                    /\ fetching'
                    /\ failureCount' = failureCount + 1
                    /\ taskError' = taskError
               ELSE lastEvent' = "fetchError" /\ taskError' /\ ~fetching']_vars

\* The third attempt of a fetch has failed and the error is shown.
C25_Witness ==
    /\ mounted
    /\ lastEvent = "fetchError"
    /\ failureCount = 2
    /\ taskError
    /\ ~fetching

\* C26: on the mounted page at most one simulation interval is scheduled,
\* and one is scheduled exactly when the value last passed to setIsMimicking
\* is true: the start branch creates the interval and sets true together,
\* and the cleanup and the final tick clear it and set false together.
C26_IntervalIffMimickingSet ==
    /\ Cardinality(Scheduled(intervals)) <= 1
    /\ mounted => ((Scheduled(intervals) # {}) <=> pending.isMimicking)

\* The cleanup of a started simulation has cleared its interval and set
\* isMimicking to false while the rendered flag is still true.
C26_Witness ==
    /\ mounted
    /\ task.status \in NonTerminal
    /\ isMimicking
    /\ ~pending.isMimicking
    /\ Scheduled(intervals) = {}
    /\ lastEvent = "render"

\* C26 as stated, over the isMimicking state the page renders with.
C26_Original ==
    /\ Cardinality(Scheduled(intervals)) <= 1
    /\ mounted => ((Scheduled(intervals) # {}) <=> isMimicking)

\* C27: while the status is pending or running no step is rendered failed,
\* at most one step is rendered processing, every step before a processing
\* step is completed and every step after it pending, with or without the
\* simulation.
C27_OneProcessingStep ==
    (mounted /\ task.status \in NonTerminal) =>
        /\ \A i \in StepIndices : displayedTaskSteps[i] # "failed"
        /\ Cardinality({i \in StepIndices : displayedTaskSteps[i] = "processing"}) <= 1
        /\ \A i \in StepIndices :
              displayedTaskSteps[i] = "processing" =>
                  \A j \in StepIndices :
                      /\ j < i => displayedTaskSteps[j] = "completed"
                      /\ j > i => displayedTaskSteps[j] = "pending"

\* The simulation is rendered a little after its start: the first step is
\* completed and the second one processing.
C27_Witness ==
    /\ mounted
    /\ task.status \in NonTerminal
    /\ isMimicking
    /\ currentMimickedStepIndex = 0
    /\ displayedTaskSteps[0] = "completed"
    /\ displayedTaskSteps[1] = "processing"
    /\ displayedTaskSteps[2] = "pending"

\* C28: once the storage check has finished, the dialog is open whenever
\* the gate is not valid, so the page always shows the dialog or the
\* progress view, whatever the user does, dismissing the dialog included.
C28_DialogWhileGateInvalid ==
    (mounted /\ ~isCheckingStorage /\ ~hasUserInfo) => userInfoDialogOpen

\* C29: whenever hasUserInfo is true, the item under 'userInfo' parses as
\* JSON and the parsed record passes userInfoSchema (the page being the only
\* writer of the key).
C29_GateImpliesStoredRecord == hasUserInfo => StoredValid(storage)

\* The gate was opened by a submission and the page has since gone through a
\* whole job; the record written then is still the stored one.
C29_Witness ==
    /\ mounted
    /\ hasUserInfo
    /\ submitted = "stored"
    /\ storage.kind = "json"
    /\ task.status = "failed"
    /\ lastEvent = "render"

\* C30: a submission whose setItem throws leaves the gate not valid, the
\* dialog shown and the store as it was, arms no delayed refetch and starts
\* no status request.
C30_FailedStoreChangesNothing ==
    [][lastEvent' = "submitThrows" =>
         /\ ~hasUserInfo'
         /\ userInfoDialogOpen'
         /\ DialogShown'
         /\ storage' = storage
         /\ ~invalidateTimer'
         /\ ~fetching'
         /\ fetchCount' = fetchCount]_vars

\* The write was refused on a page that had found nothing stored: the dialog
\* is still shown and no request has ever been made.
C30_Witness ==
    /\ lastEvent = "submitThrows"
    /\ DialogShown
    /\ storage = NoItem
    /\ ~invalidateTimer
    /\ fetchCount = 0

====
